---- MODULE Spec2Model ----
(***************************************************************************)
(* Model of main.py, the reverse WHOIS query script: main() (argument      *)
(* dispatch, balance check, query, export decision) and write_csv() (the   *)
(* results directory, the file name, the column union, the per-cell        *)
(* conversion and the CSV write inside its with-block).                    *)
(*                                                                         *)
(* Field names are sequences of character codes so that sorted() can be    *)
(* modelled as the code point comparison Python performs.  JSON values are *)
(* tagged records of one shape: t is the JSON type, s the string, n the    *)
(* integer (or 1/0 for a boolean), l the list elements.                    *)
(***************************************************************************)
EXTENDS Integers, Sequences, FiniteSets, TLC

\* ------------------------------------------------------------------------
\* Bounds of the model
\* ------------------------------------------------------------------------
MaxRecords == 2

\* ------------------------------------------------------------------------
\* JSON values
\* ------------------------------------------------------------------------
Absent == [t |-> "absent", s |-> "", n |-> 0, l |-> <<>>]

Null == [t |-> "null", s |-> "", n |-> 0, l |-> <<>>]

StrV(str) == [t |-> "str", s |-> str, n |-> 0, l |-> <<>>]

IntV(i) == [t |-> "int", s |-> "", n |-> i, l |-> <<>>]

BoolV(b) == [t |-> "bool", s |-> "", n |-> IF b THEN 1 ELSE 0, l |-> <<>>]

ListV(items) == [t |-> "list", s |-> "", n |-> 0, l |-> items]

\* Field names of the records, as code points: "dns_sec", "domain", "ns".
K_dns_sec == <<100, 110, 115, 95, 115, 101, 99>>

K_domain == <<100, 111, 109, 97, 105, 110>>

K_ns == <<110, 115>>

Fields == {K_dns_sec, K_domain, K_ns}

\* A record (a JSON object of the "results" array) maps every field name to
\* its value, or to Absent when the object has no such key.
Rec(dom, ns, sec) == (K_domain :> dom) @@ (K_ns :> ns) @@ (K_dns_sec :> sec)

Keys(result) == {k \in DOMAIN result : result[k].t # "absent"}

SampleRecords ==
    { Rec(StrV("foo.com"), ListV(<<StrV("ns1"), StrV("ns2")>>), Absent),
      Rec(StrV("bar.com"), Absent, Absent),
      Rec(Null, ListV(<<>>), IntV(42)),
      Rec(Absent, ListV(<<IntV(42), Null, StrV("ns1")>>), BoolV(TRUE)),
      Rec(Absent, Absent, IntV(0 - 7)),
      Rec(StrV(""), StrV("ns1"), BoolV(FALSE)),
      Rec(Absent, Absent, Absent) }

RECURSIVE SeqsUpTo(_, _)
SeqsUpTo(S, n) ==
    IF n = 0 THEN {<<>>}
    ELSE LET shorter == SeqsUpTo(S, n - 1)
         IN  shorter \cup {Append(q, x) : q \in {r \in shorter : Len(r) = n - 1}, x \in S}

Batches == SeqsUpTo(SampleRecords, MaxRecords)

\* ------------------------------------------------------------------------
\* str() of a scalar and ";".join (write_csv, line 206)
\* ------------------------------------------------------------------------
Digit(d) ==
    CASE d = 0 -> "0" [] d = 1 -> "1" [] d = 2 -> "2" [] d = 3 -> "3"
      [] d = 4 -> "4" [] d = 5 -> "5" [] d = 6 -> "6" [] d = 7 -> "7"
      [] d = 8 -> "8" [] d = 9 -> "9"

RECURSIVE NatStr(_)
NatStr(i) == IF i < 10 THEN Digit(i) ELSE NatStr(i \div 10) \o Digit(i % 10)

IntStr(i) == IF i < 0 THEN "-" \o NatStr(0 - i) ELSE NatStr(i)

\* Python's str(item) for an element of a list value.
PyStr(v) ==
    CASE v.t = "str" -> v.s
      [] v.t = "int" -> IntStr(v.n)
      [] v.t = "bool" -> (IF v.n = 1 THEN "True" ELSE "False")
      [] v.t = "null" -> "None"
      [] OTHER -> ""

RECURSIVE Join(_, _)
Join(sep, strs) ==
    IF strs = <<>> THEN ""
    ELSE IF Len(strs) = 1 THEN strs[1]
    ELSE strs[1] \o sep \o Join(sep, Tail(strs))

\* JoinList as it would be with "," for the separator.
JoinListComma(items) == Join(",", [i \in 1..Len(items) |-> PyStr(items[i])])

JoinList(items) == Join(";", [i \in 1..Len(items) |-> PyStr(items[i])])

\* ------------------------------------------------------------------------
\* The column union (write_csv, lines 195-198)
\* ------------------------------------------------------------------------
RECURSIVE LexLess(_, _)
LexLess(a, b) ==
    IF a = <<>> THEN b # <<>>
    ELSE IF b = <<>> THEN FALSE
    ELSE IF a[1] # b[1] THEN a[1] < b[1]
    ELSE LexLess(Tail(a), Tail(b))

RECURSIVE KeyUnion(_)
KeyUnion(records) ==
    IF records = <<>> THEN {}
    ELSE Keys(records[1]) \cup KeyUnion(Tail(records))

RECURSIVE Sorted(_)
Sorted(S) ==
    IF S = {} THEN <<>>
    ELSE LET least == CHOOSE x \in S : \A y \in S \ {x} : LexLess(x, y)
         IN  <<least>> \o Sorted(S \ {least})

RECURSIVE Reversed(_)
Reversed(q) == IF q = <<>> THEN <<>> ELSE Append(Reversed(Tail(q)), q[1])

\* ComputeColumns as it would be with sorted(..., reverse=True).
ComputeColumnsDescending(records) == Reversed(Sorted(KeyUnion(records)))

ComputeColumns(records) == Sorted(KeyUnion(records))

\* ------------------------------------------------------------------------
\* The per-row conversion (write_csv, lines 202-207) and the csv writer
\* ------------------------------------------------------------------------
\* result.get(key, "") followed by the list test.
ProcessValue(result, key) ==
    LET value == IF result[key].t = "absent" THEN StrV("") ELSE result[key]
    IN  IF value.t = "list" THEN StrV(JoinList(value.l)) ELSE value

ProcessRow(result, keys) == [k \in {keys[i] : i \in 1..Len(keys)} |-> ProcessValue(result, k)]

\* ProcessResults as it would be if the rows were collected newest first.
ProcessResultsReversed(records, keys) ==
    [i \in 1..Len(records) |-> ProcessRow(records[Len(records) + 1 - i], keys)]

ProcessResults(records, keys) == [i \in 1..Len(records) |-> ProcessRow(records[i], keys)]

\* The csv writer turns None into the empty field and any other non-string
\* into its str().
CsvField(v) == IF v.t = "null" THEN "" ELSE PyStr(v)

RECURSIVE DropBlank(_)
DropBlank(fs) ==
    IF fs = <<>> THEN <<>>
    ELSE IF fs[1] = "" THEN DropBlank(Tail(fs))
    ELSE <<fs[1]>> \o DropBlank(Tail(fs))

\* DictToList as it would be if blank fields were left out of the row.
DictToListSkipBlank(rowdict, fieldnames) ==
    DropBlank([i \in 1..Len(fieldnames) |->
        IF fieldnames[i] \in DOMAIN rowdict THEN CsvField(rowdict[fieldnames[i]]) ELSE ""])

\* DictWriter._dict_to_list: one field per fieldname, restval "" when the
\* row has no such key.
DictToList(rowdict, fieldnames) ==
    [i \in 1..Len(fieldnames) |->
        IF fieldnames[i] \in DOMAIN rowdict THEN CsvField(rowdict[fieldnames[i]]) ELSE ""]

\* ------------------------------------------------------------------------
\* Paths and file names (write_csv, lines 181-192)
\* ------------------------------------------------------------------------
\* A path is the sequence of its components from the root.  A file name
\* given by the caller is the record of its parts: "/"-prefix, directory
\* components, base name and extension.
Root == <<>>

ScriptDir == <<"app">>

ResultsDir == ScriptDir \o <<"results">>

Now == "2026-01-01_00-00-00"

NoOutput == [given |-> FALSE, abs |-> FALSE, dirs |-> <<>>, base |-> "", ext |-> ""]

Name(abs, dirs, base, ext) == [given |-> TRUE, abs |-> abs, dirs |-> dirs, base |-> base, ext |-> ext]

OutputNames ==
    { NoOutput,
      Name(FALSE, <<>>, "out", ".csv"),
      Name(FALSE, <<>>, "out", ".CSV"),
      Name(FALSE, <<>>, "out", ".txt"),
      Name(FALSE, <<"sub">>, "out", ".csv"),
      Name(TRUE, <<"tmp", "x">>, "out", ".csv") }

\* str.lower() on the extensions that occur.
Lower(ext) == IF ext = ".CSV" THEN ".csv" ELSE ext

\* Lines 184-190: the name given by the caller, ".csv" appended unless it
\* already ends with it, or the timestamped default.
ResolveName(output_filename) ==
    IF output_filename.given
    THEN IF Lower(output_filename.ext) = ".csv"
         THEN output_filename
         ELSE [output_filename EXCEPT !.base = output_filename.base \o output_filename.ext,
                                      !.ext = ".csv"]
    ELSE Name(FALSE, <<>>, "reverse_whois_" \o Now, ".csv")

\* os.path.join(results_dir, filename): an absolute filename replaces the
\* directory.
PathJoin(dir, name) ==
    IF name.abs
    THEN name.dirs \o <<name.base \o name.ext>>
    ELSE dir \o name.dirs \o <<name.base \o name.ext>>

Dirname(path) == SubSeq(path, 1, Len(path) - 1)

Ancestors(path) == {SubSeq(path, 1, i) : i \in 0..Len(path)}

\* os.makedirs: every missing ancestor is created below the deepest existing
\* one, which must be writable.
DeepestExisting(path, ds) ==
    CHOOSE a \in Ancestors(path) \cap ds :
        \A b \in Ancestors(path) \cap ds : Len(b) <= Len(a)

CanMakedirs(path, ds, readonly) == DeepestExisting(path, ds) \notin readonly

\* open(filepath, "w"): the parent directory must exist and be writable and
\* the path must not name a directory.
CanOpenForWrite(path, ds, readonly) ==
    /\ Dirname(path) \in ds
    /\ Dirname(path) \notin readonly
    /\ path \notin ds

\* The file systems a run can start in.
InitDirs ==
    { {Root, ScriptDir} \cup r \cup a :
        r \in {{}, {ResultsDir}, {ResultsDir, ResultsDir \o <<"sub">>}},
        a \in {{<<"tmp">>}, {<<"tmp">>, <<"tmp", "x">>}} }

InitReadonly == {{}, {ScriptDir}, {ResultsDir}}

\* ------------------------------------------------------------------------
\* The API response (main, lines 325-338)
\* ------------------------------------------------------------------------
\* "count" is missing (or null), or an object with some of the keys
\* "total" and "pages".
CountMissing == [kind |-> "missing", keys |-> {}, total |-> 0]

CountObj(keys, total) == [kind |-> "object", keys |-> keys, total |-> total]

Counts ==
    { CountMissing, CountObj({}, 0), CountObj({"pages"}, 0),
      CountObj({"total", "pages"}, 0), CountObj({"total", "pages"}, 2) }

\* Python truth value of count_info: None and {} are false.
Truthy(count_info) == count_info.kind = "object" /\ count_info.keys # {}

\* count_info.get("total", 0)
GetTotal(count_info) == IF "total" \in count_info.keys THEN count_info.total ELSE 0

\* "results" is missing, null, or a list of records.
ResultsMissing == [kind |-> "missing", items |-> <<>>]

ResultsNull == [kind |-> "null", items |-> <<>>]

ResultsList(items) == [kind |-> "list", items |-> items]

RoundTripBatch ==
    << Rec(StrV("foo.com"), ListV(<<StrV("ns1"), StrV("ns2")>>), Absent),
       Rec(StrV("bar.com"), Absent, Absent) >>

ResponseResults ==
    { ResultsMissing, ResultsNull, ResultsList(<<>>), ResultsList(RoundTripBatch),
      ResultsList(<<Rec(Absent, Absent, Absent)>>) }

Responses == [results : ResponseResults, count : Counts]

NoResponse == [results |-> ResultsMissing, count |-> CountMissing]

\* response.get("results", []) and its truth value (lines 337-338)
GetResults(resp) == resp.results.items

ResultsFalsy(resp) == resp.results.kind # "list" \/ resp.results.items = <<>>

\* ShouldSkip as it would be if only the results array were tested.
ShouldSkipResultsOnly(resp) == ResultsFalsy(resp)

\* Line 338: the condition under which main() prints "No matches found" and
\* does not call write_csv.
ShouldSkip(resp) ==
    ResultsFalsy(resp) \/ (Truthy(resp.count) /\ GetTotal(resp.count) = 0)

\* ------------------------------------------------------------------------
\* Command line (main, lines 248-278)
\* ------------------------------------------------------------------------
Args == [balance : BOOLEAN, endpoint : {"", "current"}, fields : BOOLEAN,
         output : OutputNames, show : BOOLEAN]

NoArgs == [balance |-> FALSE, endpoint |-> "", fields |-> FALSE,
           output |-> NoOutput, show |-> FALSE]

\* ------------------------------------------------------------------------
\* State
\* ------------------------------------------------------------------------
VARIABLES
    pc,                \* position in main() / write_csv()
    caller,            \* "main" when write_csv runs under main(), "direct" otherwise
    args,              \* parsed command line
    dirs,              \* directories that exist
    readonly,          \* directories in which nothing can be created
    files,             \* files that exist
    written,           \* rows in the CSV file, header first, each a list of fields
    results_data,      \* write_csv parameter
    output_filename,   \* write_csv parameter
    filepath,          \* write_csv local (line 192)
    all_keys,          \* write_csv local (line 198)
    processed_results, \* write_csv local (line 200)
    rowIdx,            \* next row writerows() writes
    csvfile,           \* handle of line 211: "none", "open", "closed"
    showfile,          \* handle of line 346: "none", "open", "closed"
    exc,               \* exception in flight: "none", "OSError"
    errorLogged,       \* logging.error / logging.exception was called
    ioFailed,          \* a directory or file operation on the destination failed
    exit,              \* how the run ended
    balanceGets,       \* GETs issued by check_api_balance
    queryGets,         \* GETs issued by query_api
    response,          \* JSON returned by query_api
    gotResponse,       \* query_api returned
    noMatches,         \* "No matches found for the query." was printed
    wcCalls,           \* calls of write_csv
    balance            \* outcome of check_api_balance: "none", "complete", "incomplete", "failed"

vars == <<pc, caller, args, dirs, readonly, files, written, results_data,
          output_filename, filepath, all_keys, processed_results, rowIdx,
          csvfile, showfile, exc, errorLogged, ioFailed, exit, balanceGets,
          queryGets, response, gotResponse, noMatches, wcCalls, balance>>

fsVars == <<dirs, readonly, files, written>>

wcLocals == <<filepath, all_keys, processed_results, rowIdx>>

wcParams == <<results_data, output_filename>>

netVars == <<balanceGets, queryGets, response, gotResponse, balance>>

Init ==
    /\ pc = "start"
    /\ caller = "none"
    /\ args = NoArgs
    /\ dirs \in InitDirs
    /\ readonly \in {r \in InitReadonly : r \subseteq dirs}
    /\ files = {}
    /\ written = <<>>
    /\ results_data = <<>>
    /\ output_filename = NoOutput
    /\ filepath = <<>>
    /\ all_keys = <<>>
    /\ processed_results = <<>>
    /\ rowIdx = 1
    /\ csvfile = "none"
    /\ showfile = "none"
    /\ exc = "none"
    /\ errorLogged = FALSE
    /\ ioFailed = FALSE
    /\ exit = "running"
    /\ balanceGets = 0
    /\ queryGets = 0
    /\ response = NoResponse
    /\ gotResponse = FALSE
    /\ noMatches = FALSE
    /\ wcCalls = 0
    /\ balance = "none"

\* ------------------------------------------------------------------------
\* write_csv (lines 174-220)
\* ------------------------------------------------------------------------
\* Where an exception leaving write_csv lands: the except clause of main()
\* (line 348), or the caller of a direct call.
RaiseTarget(c) == IF c = "main" THEN "main_except" ELSE "done"

RaiseExit(c) == IF c = "main" THEN "running" ELSE "raised"

\* A call of write_csv(results_data, output_filename) from outside main().
CallWriteCsv ==
    /\ pc = "start"
    /\ \E b \in Batches, o \in OutputNames :
        /\ results_data' = b
        /\ output_filename' = o
    /\ caller' = "direct"
    /\ wcCalls' = wcCalls + 1
    /\ pc' = "wc_mkdir"
    /\ UNCHANGED <<args, fsVars, wcLocals, csvfile, showfile, exc, errorLogged,
                   ioFailed, exit, netVars, noMatches>>

\* Lines 181-182: os.makedirs(results_dir, exist_ok=True), outside the try.
WcMkdir ==
    /\ pc = "wc_mkdir"
    /\ IF ResultsDir \in dirs \/ CanMakedirs(ResultsDir, dirs, readonly)
       THEN /\ dirs' = dirs \cup Ancestors(ResultsDir)
            /\ pc' = "wc_prepare"
            /\ UNCHANGED <<exc, ioFailed, exit>>
       ELSE /\ exc' = "OSError"
            /\ ioFailed' = TRUE
            /\ pc' = RaiseTarget(caller)
            /\ exit' = RaiseExit(caller)
            /\ UNCHANGED dirs
    /\ UNCHANGED <<caller, args, readonly, files, written, wcParams, wcLocals,
                   csvfile, showfile, errorLogged, netVars, noMatches, wcCalls>>

\* Lines 184-208: the file name, the path, the columns and the processed rows.
WcPrepare ==
    /\ pc = "wc_prepare"
    /\ filepath' = PathJoin(ResultsDir, ResolveName(output_filename))
    /\ all_keys' = ComputeColumns(results_data)
    /\ processed_results' = ProcessResults(results_data, ComputeColumns(results_data))
    /\ pc' = "wc_open"
    /\ UNCHANGED <<caller, args, fsVars, wcParams, rowIdx, csvfile, showfile, exc,
                   errorLogged, ioFailed, exit, netVars, noMatches, wcCalls>>

\* Line 211: open(filepath, "w") creates or truncates the file.
WcOpen ==
    /\ pc = "wc_open"
    /\ IF CanOpenForWrite(filepath, dirs, readonly)
       THEN /\ files' = files \cup {filepath}
            /\ written' = <<>>
            /\ csvfile' = "open"
            /\ pc' = "wc_header"
            /\ UNCHANGED <<exc, ioFailed>>
       ELSE /\ exc' = "OSError"
            /\ ioFailed' = TRUE
            /\ pc' = "wc_except"
            /\ UNCHANGED <<files, written, csvfile>>
    /\ UNCHANGED <<caller, args, dirs, readonly, wcParams, wcLocals, showfile,
                   errorLogged, exit, netVars, noMatches, wcCalls>>

\* Lines 212-213: DictWriter(csvfile, fieldnames=all_keys).writeheader();
\* the write can fail (disk full).
WcHeader ==
    /\ pc = "wc_header"
    /\ \E ok \in BOOLEAN :
        IF ok
        THEN /\ written' = Append(written, all_keys)
             /\ rowIdx' = 1
             /\ pc' = "wc_rows"
             /\ UNCHANGED <<exc, ioFailed>>
        ELSE /\ exc' = "OSError"
             /\ ioFailed' = TRUE
             /\ pc' = "wc_exit"
             /\ UNCHANGED <<written, rowIdx>>
    /\ UNCHANGED <<caller, args, dirs, readonly, files, wcParams, filepath,
                   all_keys, processed_results, csvfile, showfile, errorLogged,
                   exit, netVars, noMatches, wcCalls>>

\* Line 214: writer.writerows(processed_results), one row per step.
WcRow ==
    /\ pc = "wc_rows"
    /\ rowIdx <= Len(processed_results)
    /\ \E ok \in BOOLEAN :
        IF ok
        THEN /\ written' = Append(written, DictToList(processed_results[rowIdx], all_keys))
             /\ rowIdx' = rowIdx + 1
             /\ UNCHANGED <<exc, ioFailed, pc>>
        ELSE /\ exc' = "OSError"
             /\ ioFailed' = TRUE
             /\ pc' = "wc_exit"
             /\ UNCHANGED <<written, rowIdx>>
    /\ UNCHANGED <<caller, args, dirs, readonly, files, wcParams, filepath,
                   all_keys, processed_results, csvfile, showfile, errorLogged,
                   exit, netVars, noMatches, wcCalls>>

\* HandleAfterWith as it would be if the file were closed by hand after the
\* last write instead of by the with-block.
HandleAfterWithLeak(raised) == IF raised THEN "open" ELSE "closed"

\* The state of the handle when the with-block of line 211 is left.
HandleAfterWith(raised) == "closed"

\* Leaving the with-block: after the last row, or with the exception.
WcExit ==
    /\ \/ pc = "wc_rows" /\ rowIdx > Len(processed_results)
       \/ pc = "wc_exit"
    /\ csvfile' = HandleAfterWith(exc # "none")
    /\ pc' = IF exc # "none" THEN "wc_except" ELSE "wc_return"
    /\ UNCHANGED <<caller, args, fsVars, wcParams, wcLocals, showfile, exc,
                   errorLogged, ioFailed, exit, netVars, noMatches, wcCalls>>

\* Lines 216-218: log the error and re-raise.
WcExcept ==
    /\ pc = "wc_except"
    /\ errorLogged' = TRUE
    /\ pc' = RaiseTarget(caller)
    /\ exit' = RaiseExit(caller)
    /\ UNCHANGED <<caller, args, fsVars, wcParams, wcLocals, csvfile, showfile,
                   exc, ioFailed, netVars, noMatches, wcCalls>>

\* Line 220: return filepath.
WcReturn ==
    /\ pc = "wc_return"
    /\ pc' = IF caller = "main" THEN "main_saved" ELSE "done"
    /\ exit' = IF caller = "main" THEN "running" ELSE "returned"
    /\ UNCHANGED <<caller, args, fsVars, wcParams, wcLocals, csvfile, showfile,
                   exc, errorLogged, ioFailed, netVars, noMatches, wcCalls>>

\* ------------------------------------------------------------------------
\* main (lines 223-352)
\* ------------------------------------------------------------------------
\* Lines 355-356 and 278: the script is started with a command line.
Launch ==
    /\ pc = "start"
    /\ \E a \in Args : args' = a
    /\ caller' = "main"
    /\ pc' = "main_mkdir"
    /\ UNCHANGED <<fsVars, wcParams, wcLocals, csvfile, showfile, exc, errorLogged,
                   ioFailed, exit, netVars, noMatches, wcCalls>>

\* Lines 230-233: the results folder is created when it does not exist; the
\* call is not inside any try, so its OSError ends the run with a traceback.
MainMkdir ==
    /\ pc = "main_mkdir"
    /\ IF ResultsDir \in dirs
       THEN /\ pc' = "main_dispatch"
            /\ UNCHANGED <<dirs, exc, ioFailed, exit>>
       ELSE IF CanMakedirs(ResultsDir, dirs, readonly)
       THEN /\ dirs' = dirs \cup Ancestors(ResultsDir)
            /\ pc' = "main_dispatch"
            /\ UNCHANGED <<exc, ioFailed, exit>>
       ELSE /\ exc' = "OSError"
            /\ ioFailed' = TRUE
            /\ exit' = "crash"
            /\ pc' = "done"
            /\ UNCHANGED dirs
    /\ UNCHANGED <<caller, args, readonly, files, written, wcParams, wcLocals,
                   csvfile, showfile, errorLogged, netVars, noMatches, wcCalls>>

\* Lines 283-297: --balance; one GET by check_api_balance, whose failure is
\* logged and ends the run with status 1; otherwise status 0.
MainBalance ==
    /\ pc = "main_dispatch"
    /\ args.balance
    /\ balanceGets' = balanceGets + 1
    /\ \E outcome \in {"complete", "incomplete", "failed"} :
        /\ balance' = outcome
        /\ errorLogged' = (outcome = "failed")
        /\ exit' = IF outcome = "failed" THEN "exit1" ELSE "exit0"
    /\ pc' = "done"
    /\ UNCHANGED <<caller, args, fsVars, wcParams, wcLocals, csvfile, showfile,
                   exc, ioFailed, queryGets, response, gotResponse, noMatches, wcCalls>>

\* Lines 299-314: without an endpoint or without any search field the run
\* prints an error and exits with status 1.
MainValidate ==
    /\ pc = "main_dispatch"
    /\ ~args.balance
    /\ IF args.endpoint = "" \/ ~args.fields
       THEN pc' = "done" /\ exit' = "exit1"
       ELSE pc' = "main_query" /\ UNCHANGED exit
    /\ UNCHANGED <<caller, args, fsVars, wcParams, wcLocals, csvfile, showfile,
                   exc, errorLogged, ioFailed, netVars, noMatches, wcCalls>>

\* Lines 318-322: query_api issues one GET; its failure is logged and ends
\* the run with status 1.
MainQuery ==
    /\ pc = "main_query"
    /\ queryGets' = queryGets + 1
    /\ \/ \E r \in Responses :
            /\ response' = r
            /\ gotResponse' = TRUE
            /\ pc' = "main_decide"
            /\ UNCHANGED <<errorLogged, exit>>
       \/ /\ errorLogged' = TRUE
          /\ exit' = "exit1"
          /\ pc' = "done"
          /\ UNCHANGED <<response, gotResponse>>
    /\ UNCHANGED <<caller, args, fsVars, wcParams, wcLocals, csvfile, showfile,
                   exc, ioFailed, balanceGets, balance, noMatches, wcCalls>>

\* Lines 325-342: the summary, then either "No matches found" or the call
\* write_csv(results_data, output_filename=args.output).
MainDecide ==
    /\ pc = "main_decide"
    /\ IF ShouldSkip(response)
       THEN /\ noMatches' = TRUE
            /\ pc' = "main_end"
            /\ UNCHANGED <<wcParams, wcCalls>>
       ELSE /\ results_data' = GetResults(response)
            /\ output_filename' = args.output
            /\ wcCalls' = wcCalls + 1
            /\ pc' = "wc_mkdir"
            /\ UNCHANGED noMatches
    /\ UNCHANGED <<caller, args, fsVars, wcLocals, csvfile, showfile, exc,
                   errorLogged, ioFailed, exit, netVars>>

\* Lines 343-346: the path is printed and, with --show, the file is opened
\* for reading.
MainSaved ==
    /\ pc = "main_saved"
    /\ IF args.show
       THEN showfile' = "open" /\ pc' = "main_show"
       ELSE pc' = "main_end" /\ UNCHANGED showfile
    /\ UNCHANGED <<caller, args, fsVars, wcParams, wcLocals, csvfile, exc,
                   errorLogged, ioFailed, exit, netVars, noMatches, wcCalls>>

\* Line 347: print(f.read()) inside the with-block of line 346; the read can
\* fail, and the handle is closed either way.
MainShow ==
    /\ pc = "main_show"
    /\ showfile' = "closed"
    /\ \E ok \in BOOLEAN :
        IF ok
        THEN pc' = "main_end" /\ UNCHANGED <<exc, ioFailed>>
        ELSE pc' = "main_except" /\ exc' = "OSError" /\ ioFailed' = TRUE
    /\ UNCHANGED <<caller, args, fsVars, wcParams, wcLocals, csvfile,
                   errorLogged, exit, netVars, noMatches, wcCalls>>

\* Lines 348-350: logging.exception and sys.exit(1).
MainExcept ==
    /\ pc = "main_except"
    /\ errorLogged' = TRUE
    /\ exit' = "exit1"
    /\ pc' = "done"
    /\ UNCHANGED <<caller, args, fsVars, wcParams, wcLocals, csvfile, showfile,
                   exc, ioFailed, netVars, noMatches, wcCalls>>

\* Line 352: main() returns and the interpreter exits with status 0.
MainEnd ==
    /\ pc = "main_end"
    /\ exit' = "exit0"
    /\ pc' = "done"
    /\ UNCHANGED <<caller, args, fsVars, wcParams, wcLocals, csvfile, showfile,
                   exc, errorLogged, ioFailed, netVars, noMatches, wcCalls>>

Next ==
    \/ Launch
    \/ MainMkdir
    \/ MainBalance
    \/ MainValidate
    \/ MainQuery
    \/ MainDecide
    \/ MainSaved
    \/ MainShow
    \/ MainExcept
    \/ MainEnd
    \/ CallWriteCsv
    \/ WcMkdir
    \/ WcPrepare
    \/ WcOpen
    \/ WcHeader
    \/ WcRow
    \/ WcExit
    \/ WcExcept
    \/ WcReturn

Spec == Init /\ [][Next]_vars

\* ------------------------------------------------------------------------
\* Expected values, stated independently of the conversions above
\* ------------------------------------------------------------------------
\* The text a cell must hold for each value that occurs in the records.
ExpectedCell(v) ==
    CASE v.t \in {"absent", "null"} -> ""
      [] v.t = "str" -> v.s
      [] v = IntV(42) -> "42"
      [] v = IntV(0 - 7) -> "-7"
      [] v = BoolV(TRUE) -> "True"
      [] v = BoolV(FALSE) -> "False"
      [] v = ListV(<<>>) -> ""
      [] v = ListV(<<StrV("ns1"), StrV("ns2")>>) -> "ns1;ns2"
      [] v = ListV(<<IntV(42), Null, StrV("ns1")>>) -> "42;None;ns1"

AllFieldNames(records) == UNION {Keys(records[i]) : i \in 1..Len(records)}

StrictlyAscending(keys) == \A i \in 1..Len(keys) - 1 : LexLess(keys[i], keys[i + 1])

\* The with-block of write_csv was entered by the current call.
Exported == csvfile # "none"

\* The with-block was left without an exception.
ExportSucceeded == csvfile = "closed" /\ exc = "none"

\* ------------------------------------------------------------------------
\* Claims
\* ------------------------------------------------------------------------
\* C1: for every non-empty batch handed to write_csv, the header has exactly
\* as many cells as there are distinct field names in the batch, every data
\* row has that many cells, cell j of a row is the value of the field named
\* by cell j of the header, and a completed export has one row per record.
RowsMatchHeader ==
    (Exported /\ results_data # <<>> /\ written # <<>>) =>
        /\ Len(written[1]) = Cardinality(AllFieldNames(results_data))
        /\ \A i \in 2..Len(written) :
            /\ Len(written[i]) = Len(written[1])
            /\ \A j \in 1..Len(written[i]) :
                written[i][j] = ExpectedCell(results_data[i - 1][written[1][j]])
        /\ ExportSucceeded => Len(written) = 1 + Len(results_data)

RowsMatchHeaderWitness ==
    /\ ExportSucceeded
    /\ Len(results_data) = 2
    /\ Keys(results_data[1]) # Keys(results_data[2])
    /\ Keys(results_data[1]) # {}
    /\ Len(written) = 3

\* C2: the column list is the union of the field names of all records,
\* without duplicates, in ascending code point order; it is the same for the
\* batch taken in the opposite order, and empty for the empty batch.
ColumnsSortedUnion ==
    (pc \in {"wc_open", "wc_header", "wc_rows"}) =>
        /\ {all_keys[i] : i \in 1..Len(all_keys)} = AllFieldNames(results_data)
        /\ StrictlyAscending(all_keys)
        /\ all_keys = ComputeColumns(Reversed(results_data))
        /\ results_data = <<>> => all_keys = <<>>

ColumnsSortedUnionWitness ==
    /\ pc = "wc_open"
    /\ Len(results_data) = 2
    /\ Len(all_keys) = 3
    /\ Keys(results_data[1]) = {K_ns, K_dns_sec}
    /\ Keys(results_data[2]) = {K_domain}

\* C3: in every written data row, a list value is the ";"-joined string
\* forms of its elements (the empty list gives the empty string), a null
\* value or an absent field gives the empty string, and any other scalar
\* gives its string form (42 gives "42").
CellsRendered ==
    Exported =>
        \A i \in 2..Len(written) : \A j \in 1..Len(all_keys) :
            LET v == results_data[i - 1][all_keys[j]]
                cell == written[i][j]
            IN  /\ v.t \in {"null", "absent"} => cell = ""
                /\ v = ListV(<<>>) => cell = ""
                /\ v = ListV(<<StrV("ns1"), StrV("ns2")>>) => cell = "ns1;ns2"
                /\ v = ListV(<<IntV(42), Null, StrV("ns1")>>) => cell = "42;None;ns1"
                /\ v = IntV(42) => cell = "42"
                /\ v.t \in {"str", "int", "bool"} => cell = ExpectedCell(v)

CellsRenderedWitness ==
    /\ Exported
    /\ Len(written) = 3
    /\ results_data[1] = Rec(Null, ListV(<<>>), IntV(42))
    /\ results_data[2] = Rec(StrV("foo.com"), ListV(<<StrV("ns1"), StrV("ns2")>>), Absent)
    /\ written[2] = <<"42", "", "">>
    /\ written[3] = <<"", "foo.com", "ns1;ns2">>

\* C4 (as stated): the export of the round-trip batch has the header
\* [domain, ns] and the data rows ["bar.com", ""] and ["foo.com", "ns1;ns2"],
\* listed in that order.
RoundTripAsStated ==
    (ExportSucceeded /\ results_data = RoundTripBatch) =>
        written = << <<K_domain, K_ns>>, <<"bar.com", "">>, <<"foo.com", "ns1;ns2">> >>

\* C4 (amended): the export of the round-trip batch has the header
\* [domain, ns] and one data row per record in record order, that is
\* ["foo.com", "ns1;ns2"] first and ["bar.com", ""] second.
RoundTripRecordOrder ==
    (ExportSucceeded /\ results_data = RoundTripBatch) =>
        written = << <<K_domain, K_ns>>, <<"foo.com", "ns1;ns2">>, <<"bar.com", "">> >>

RoundTripWitness ==
    /\ ExportSucceeded
    /\ results_data = RoundTripBatch
    /\ Len(written) = 3

\* C5: an empty batch never creates a file, neither when main() receives an
\* empty results array nor when write_csv is called with an empty batch.
EmptyBatchCreatesNoFile ==
    /\ (gotResponse /\ ResultsFalsy(response)) => files = {}
    /\ (wcCalls > 0 /\ results_data = <<>>) => files = {}

\* C6: every failure to create or write the destination is raised to the
\* caller, and a run of main() in which one occurred ends with a logged
\* error and exit status 1, never with an unhandled exception.
IoFailureControlled ==
    (pc = "done" /\ ioFailed) =>
        /\ caller = "main" => (exit = "exit1" /\ errorLogged)
        /\ caller = "direct" => exit = "raised"

\* C7: whenever write_csv is about to open its file, the directory that
\* contains the resolved path exists.
ParentDirExistsAtOpen ==
    pc = "wc_open" => Dirname(filepath) \in dirs

\* C8: the CSV handle is open only inside the with-block of write_csv (and
\* the --show handle only inside its own), so it is closed whenever
\* write_csv has returned or raised and at the end of every run.
HandleReleased ==
    /\ csvfile = "open" => pc \in {"wc_header", "wc_rows", "wc_exit"}
    /\ showfile = "open" => pc = "main_show"
    /\ pc = "done" => (csvfile # "open" /\ showfile # "open")

HandleReleasedWitness ==
    /\ pc = "done"
    /\ csvfile = "closed"
    /\ exc = "OSError"
    /\ Len(written) = 2
    /\ Len(results_data) = 2

\* C9: a run with --balance issues exactly one balance GET, never the
\* reverse WHOIS query, writes no CSV file, and ends with status 0 when the
\* balance request succeeded and with status 1 when it failed.
BalanceOnly ==
    (caller = "main" /\ args.balance) =>
        /\ queryGets = 0
        /\ wcCalls = 0
        /\ files = {}
        /\ pc = "done" =>
            /\ balanceGets = 1
            /\ balance \in {"complete", "incomplete"} => exit = "exit0"
            /\ balance = "failed" => exit = "exit1"
            /\ exit \in {"exit0", "exit1"}

\* C10 (as stated): after the response, write_csv is called if and only if
\* the results array is non-empty and count.total is not 0, where only a
\* missing count object lets the export through; a run that does not export
\* prints "No matches found" and ends normally.
ExportIffAsStated ==
    (gotResponse /\ pc # "main_decide") =>
        /\ (wcCalls = 1) <=>
              /\ ~ResultsFalsy(response)
              /\ ~(response.count.kind = "object" /\ GetTotal(response.count) = 0)
        /\ wcCalls = 0 => noMatches
        /\ (wcCalls = 0 /\ pc = "done") => (exit = "exit0" /\ ~errorLogged)

\* C10 (amended): as stated, except that an empty count object lets the
\* export through like a missing one: the export is blocked by a count
\* object that has at least one key and whose total (0 when the key is
\* absent) equals 0.
ExportIff ==
    (gotResponse /\ pc # "main_decide") =>
        /\ (wcCalls = 1) <=>
              /\ response.results.kind = "list"
              /\ Len(response.results.items) > 0
              /\ ~(/\ response.count.kind = "object"
                   /\ response.count.keys # {}
                   /\ ("total" \notin response.count.keys \/ response.count.total = 0))
        /\ wcCalls = 0 => noMatches
        /\ (wcCalls = 0 /\ pc = "done") => (exit = "exit0" /\ ~errorLogged)

ExportIffWitness ==
    /\ gotResponse
    /\ pc = "done"
    /\ response.results = ResultsList(RoundTripBatch)
    /\ response.count = CountObj({"total", "pages"}, 0)
    /\ noMatches
    /\ wcCalls = 0
    /\ exit = "exit0"

====
